---- MODULE Spec2Model ----
(***************************************************************************)
(* A model of arc's object storage core (src/libarc/main.py): the          *)
(* repository locator (GitRepository, repo_create), the path resolver      *)
(* (repo_path, repo_dir, repo_file), the object model (GitObject, GitBlob) *)
(* and the object store (object_read, object_write).                       *)
(*                                                                         *)
(* Bytes are the integers 0..255 and byte strings are sequences of them.   *)
(* Paths are sequences of path components; <<>> is the filesystem root.    *)
(* The filesystem is a function from the paths that exist to their nodes.  *)
(***************************************************************************)
EXTENDS Integers, Sequences, FiniteSets, TLC

VARIABLES
    fs,     \* the filesystem: path -> [kind, data]
    repo,   \* the GitRepository object the caller holds, or NoRepo (None)
    ret,    \* the last call: its arguments, the exception raised, its value
    procs   \* the concurrent object_write calls: position and locals of each

vars == <<fs, repo, ret, procs>>

----------------------------------------------------------------------------
(* Bounds of the model. *)

\* longest payload of an object handed to object_write
MaxPayloadLen == 1

\* most object files the store holds before further new objects are refused
MaxStored == 1

\* the same for the store of a repository that starts out empty
MaxFreshStored == 2

\* largest length the header of a damaged object file declares
MaxDeclared == 2

\* largest format version a pre-existing configuration file declares
MaxVersion == 1

----------------------------------------------------------------------------
(* Byte strings. *)

SP  == 32
NUL == 0

B_blob   == <<98, 108, 111, 98>>
B_tree   == <<116, 114, 101, 101>>
B_commit == <<99, 111, 109, 109, 105, 116>>
B_tag    == <<116, 97, 103>>
B_blub   == <<98, 108, 117, 98>>
B_ble    == <<98, 108, 195, 169>>
B_false  == <<102, 97, 108, 115, 101>>

\* str(n).encode() for n >= 0: the decimal digits of n, most significant first
RECURSIVE DecStr(_)
DecStr(n) ==
    IF n < 10 THEN <<48 + n>>
    ELSE Append(DecStr(n \div 10), 48 + (n % 10))

\* a Python index clamped into 0..len, negative indices counting from the end
ClampIndex(i, len) ==
    IF i < 0 THEN (IF len + i < 0 THEN 0 ELSE len + i)
    ELSE IF i > len THEN len ELSE i

\* bytes[i:j] with Python's 0-based, end-exclusive indices
Slice(s, i, j) ==
    SubSeq(s, ClampIndex(i, Len(s)) + 1, ClampIndex(j, Len(s)))

\* bytes.find(b, start): the 0-based index of the first b at or after start, or -1
Find(s, b, start) ==
    LET from == ClampIndex(start, Len(s))
        hits == {i \in (from + 1)..Len(s) : s[i] = b}
    IN  IF hits = {} THEN -1
        ELSE (CHOOSE i \in hits : \A j \in hits : i <= j) - 1

IsDigit(b) == b >= 48 /\ b <= 57
IsSpace(b) == b \in {9, 10, 11, 12, 13, 32}

RECURSIVE StripLeft(_)
StripLeft(s) ==
    IF Len(s) > 0 /\ IsSpace(s[1]) THEN StripLeft(Tail(s)) ELSE s

RECURSIVE StripRight(_)
StripRight(s) ==
    IF Len(s) > 0 /\ IsSpace(s[Len(s)]) THEN StripRight(SubSeq(s, 1, Len(s) - 1)) ELSE s

RECURSIVE DigitsValue(_)
DigitsValue(s) ==
    IF Len(s) = 0 THEN 0
    ELSE 10 * DigitsValue(SubSeq(s, 1, Len(s) - 1)) + (s[Len(s)] - 48)

\* int(text): surrounding whitespace and one sign are accepted, then decimal
\* digits only; anything else is a ValueError
PyInt(s) ==
    LET t == StripRight(StripLeft(s))
        signed == Len(t) > 0 /\ t[1] \in {43, 45}
        d == IF signed THEN Tail(t) ELSE t
    IN  IF Len(d) > 0 /\ \A i \in 1..Len(d) : IsDigit(d[i])
        THEN [ok |-> TRUE,
              val |-> IF signed /\ t[1] = 45 THEN 0 - DigitsValue(d) ELSE DigitsValue(d)]
        ELSE [ok |-> FALSE, val |-> 0]

----------------------------------------------------------------------------
(* hashlib.sha1: SHA-1 over 32-bit words kept as <<high 16 bits, low 16 bits>>. *)

W16 == 65536

RECURSIVE BitOp16(_, _, _, _)
BitOp16(op, a, b, n) ==
    IF n = 0 THEN 0
    ELSE LET p == a % 2
             q == b % 2
             r == CASE op = "and" -> p * q
                    [] op = "or"  -> IF p + q > 0 THEN 1 ELSE 0
                    [] op = "xor" -> (p + q) % 2
         IN  r + 2 * BitOp16(op, a \div 2, b \div 2, n - 1)

WAnd(u, v) == <<BitOp16("and", u[1], v[1], 16), BitOp16("and", u[2], v[2], 16)>>
WOr(u, v)  == <<BitOp16("or", u[1], v[1], 16), BitOp16("or", u[2], v[2], 16)>>
WXor(u, v) == <<BitOp16("xor", u[1], v[1], 16), BitOp16("xor", u[2], v[2], 16)>>
WNot(u)    == <<W16 - 1 - u[1], W16 - 1 - u[2]>>
WAdd(u, v) ==
    LET lo == u[2] + v[2]
        hi == u[1] + v[1] + (lo \div W16)
    IN  <<hi % W16, lo % W16>>

RECURSIVE Pow2(_)
Pow2(n) == IF n = 0 THEN 1 ELSE 2 * Pow2(n - 1)

\* rotate left by n bits, 0 < n < 16
RotlSmall(u, n) ==
    <<((u[1] * Pow2(n)) % W16) + (u[2] \div Pow2(16 - n)),
      ((u[2] * Pow2(n)) % W16) + (u[1] \div Pow2(16 - n))>>

Rotl(u, n) ==
    IF n = 16 THEN <<u[2], u[1]>>
    ELSE IF n < 16 THEN RotlSmall(u, n)
    ELSE RotlSmall(<<u[2], u[1]>>, n - 16)

Zeros(n) == [i \in 1..n |-> 0]

\* the padded message: 0x80, zeros up to 56 mod 64, the bit length big-endian
Sha1Pad(msg) ==
    LET bits == 8 * Len(msg)
    IN  msg \o <<128>> \o Zeros((119 - Len(msg)) % 64) \o Zeros(4)
            \o <<(bits \div 16777216) % 256, (bits \div 65536) % 256,
                 (bits \div 256) % 256, bits % 256>>

BlockWord(blk, t) ==
    <<blk[4 * t + 1] * 256 + blk[4 * t + 2], blk[4 * t + 3] * 256 + blk[4 * t + 4]>>

RECURSIVE Schedule(_)
Schedule(w) ==
    IF Len(w) = 80 THEN w
    ELSE LET t == Len(w) + 1
         IN  Schedule(Append(w,
                 Rotl(WXor(WXor(w[t - 3], w[t - 8]), WXor(w[t - 14], w[t - 16])), 1)))

Sha1F(t, b, c, d) ==
    IF t < 20 THEN WOr(WAnd(b, c), WAnd(WNot(b), d))
    ELSE IF t < 40 THEN WXor(WXor(b, c), d)
    ELSE IF t < 60 THEN WOr(WOr(WAnd(b, c), WAnd(b, d)), WAnd(c, d))
    ELSE WXor(WXor(b, c), d)

Sha1K(t) ==
    IF t < 20 THEN <<23170, 31129>>
    ELSE IF t < 40 THEN <<28377, 60321>>
    ELSE IF t < 60 THEN <<36635, 48348>>
    ELSE <<51810, 49622>>

\* the 80 rounds on s = <<a, b, c, d, e>>; Len(s) makes each round's state
\* be computed before the next round starts
RECURSIVE Rounds(_, _, _)
Rounds(w, t, s) ==
    IF Len(s) # 5 \/ t = 80 THEN s
    ELSE LET tmp == WAdd(WAdd(WAdd(WAdd(Rotl(s[1], 5), Sha1F(t, s[2], s[3], s[4])),
                                   s[5]), Sha1K(t)), w[t + 1])
         IN  Rounds(w, t + 1, <<tmp, s[1], Rotl(s[2], 30), s[3], s[4]>>)

Sha1H0 ==
    << <<26437, 8961>>, <<61389, 43913>>, <<39098, 56574>>,
       <<4146, 21622>>, <<50130, 57840>> >>

RECURSIVE Sha1Blocks(_, _)
Sha1Blocks(padded, h) ==
    IF Len(padded) = 0 THEN h
    ELSE LET blk == SubSeq(padded, 1, 64)
             s == Rounds(Schedule([t \in 1..16 |-> BlockWord(blk, t - 1)]), 0, h)
         IN  Sha1Blocks(SubSeq(padded, 65, Len(padded)),
                        [i \in 1..5 |-> WAdd(h[i], s[i])])

HexChar == <<"0", "1", "2", "3", "4", "5", "6", "7", "8", "9", "a", "b", "c", "d", "e", "f">>

Hex16(n) ==
    HexChar[(n \div 4096) + 1] \o HexChar[((n \div 256) % 16) + 1]
        \o HexChar[((n \div 16) % 16) + 1] \o HexChar[(n % 16) + 1]

\* hashlib.sha1(msg).hexdigest(): 40 lower-case hexadecimal characters
HexDigest(h) ==
    Hex16(h[1][1]) \o Hex16(h[1][2]) \o Hex16(h[2][1]) \o Hex16(h[2][2])
        \o Hex16(h[3][1]) \o Hex16(h[3][2]) \o Hex16(h[4][1]) \o Hex16(h[4][2])
        \o Hex16(h[5][1]) \o Hex16(h[5][2])

Sha1Hex(msg) == HexDigest(Sha1Blocks(Sha1Pad(msg), Sha1H0))

----------------------------------------------------------------------------
(* The filesystem, as the os and os.path calls of the program see it. *)

NoData == [none |-> TRUE]
DirNode == [kind |-> "dir", data |-> NoData]
FileNode(d) == [kind |-> "file", data |-> d]

\* the outcome of a call that may change the filesystem
Ok(f) == [exc |-> "none", fs |-> f]
Raise(e, f) == [exc |-> e, fs |-> f]

Parent(p) == SubSeq(p, 1, Len(p) - 1)

Exists(f, p) == p \in DOMAIN f
IsDir(f, p)  == p \in DOMAIN f /\ f[p].kind = "dir"
IsFile(f, p) == p \in DOMAIN f /\ f[p].kind = "file"

Put(f, p, node) == [q \in DOMAIN f \cup {p} |-> IF q = p THEN node ELSE f[q]]

\* the entries of directory p
Entries(f, p) == {q \in DOMAIN f : Len(q) = Len(p) + 1 /\ SubSeq(q, 1, Len(p)) = p}

\* os.listdir(p): the exception it raises, "none" when it lists p
ListDirExc(f, p) ==
    IF ~Exists(f, p) THEN "FileNotFoundError"
    ELSE IF ~IsDir(f, p) THEN "NotADirectoryError"
    ELSE "none"

\* os.mkdir(p)
MkDir(f, p) ==
    IF Exists(f, p) THEN Raise("FileExistsError", f)
    ELSE IF ~Exists(f, Parent(p)) THEN Raise("FileNotFoundError", f)
    ELSE IF ~IsDir(f, Parent(p)) THEN Raise("NotADirectoryError", f)
    ELSE Ok(Put(f, p, DirNode))

\* os.makedirs(p): the missing ancestors first, then mkdir of the leaf; its
\* "except FileExistsError: pass" covers the ancestors only
MkDirAfter(head, p) ==
    IF head.exc \in {"none", "FileExistsError"} THEN MkDir(head.fs, p) ELSE head

RECURSIVE MakeDirs(_, _)
MakeDirs(f, p) ==
    IF Len(p) > 0 /\ ~Exists(f, Parent(p))
    THEN MkDirAfter(MakeDirs(f, Parent(p)), p)
    ELSE MkDir(f, p)

\* open(p, "w") or open(p, "wb"): the file is created, or truncated to nothing
OpenTrunc(f, p, empty) ==
    IF IsDir(f, p) THEN Raise("IsADirectoryError", f)
    ELSE IF ~Exists(f, Parent(p)) THEN Raise("FileNotFoundError", f)
    ELSE IF ~IsDir(f, Parent(p)) THEN Raise("NotADirectoryError", f)
    ELSE Ok(Put(f, p, FileNode(empty)))

\* with open(p, "w") as h: h.write(data)
WriteFile(f, p, data) == OpenTrunc(f, p, data)

----------------------------------------------------------------------------
(* zlib and configparser, by their contracts. *)

\* zlib.compress(b): a stream that zlib.decompress maps back to b
ZlibCompress(b) == [zlib |-> b]
IsZlib(d) == "zlib" \in DOMAIN d
ZlibDecompress(d) == d.zlib

\* a file of no bytes
EmptyBytes == [raw |-> <<>>]

\* a ConfigParser: section -> option -> value
EmptyConf == [s \in {} |-> [o \in {} |-> <<>>]]
ConfFile(c) == [ini |-> c]
TextFile(t) == [text |-> t]

\* a default configuration that stores format version 1
RepoConfigVersionOne ==
    [core |-> [repositoryformatversion |-> DecStr(1), filemode |-> B_false, bare |-> B_false]]

\* (the body of repo_default_config)
RepoDefaultConfig ==
    [core |-> [repositoryformatversion |-> DecStr(0), filemode |-> B_false, bare |-> B_false]]

----------------------------------------------------------------------------
(* The repository object and the path resolver. *)

GitDirName == ".git"

NoRepo == [isNone |-> TRUE, worktree |-> <<>>, gitdir |-> <<>>, conf |-> EmptyConf]
RepoAt(path, conf) ==
    [isNone |-> FALSE, worktree |-> path, gitdir |-> Append(path, GitDirName), conf |-> conf]

RepoPath(r, path) == r.gitdir \o path

\* a path the resolver returns, or None; or the exception it raised
PathOk(f, p) == [exc |-> "none", isNone |-> FALSE, path |-> p, fs |-> f]
PathNone(f)  == [exc |-> "none", isNone |-> TRUE, path |-> <<>>, fs |-> f]
PathRaise(e, f) == [exc |-> e, isNone |-> TRUE, path |-> <<>>, fs |-> f]

\* repo_dir: "os.makedirs(path); return path", m being what makedirs did
MadeDir(m, p) ==
    IF m.exc = "none" THEN PathOk(m.fs, p) ELSE PathRaise(m.exc, m.fs)

\* repo_dir, from "if os.path.exists(path):" on
ResolveDir(f, p, mkdir) ==
    IF Exists(f, p)
    THEN IF IsDir(f, p) THEN PathOk(f, p) ELSE PathRaise("NotADirectory", f)
    ELSE IF mkdir THEN MadeDir(MakeDirs(f, p), p)
    ELSE PathNone(f)

RepoDir(f, r, path, mkdir) == ResolveDir(f, RepoPath(r, path), mkdir)

\* repo_file: "if repo_dir(...): return repo_path(repo, *path)", d being what
\* repo_dir returned
FileIn(d, p) ==
    IF d.exc # "none" \/ d.isNone THEN d ELSE PathOk(d.fs, p)

RepoFile(f, r, path, mkdir) ==
    FileIn(RepoDir(f, r, Parent(path), mkdir), RepoPath(r, path))

\* self.conf.read([cf]): a file that cannot be opened is skipped
ConfRead(f, cf) ==
    IF IsFile(f, cf) /\ "ini" \in DOMAIN f[cf].data THEN f[cf].data.ini ELSE EmptyConf

\* a version check that accepts every integer
VersionOfAny(v) == IF ~v.ok THEN "ValueError" ELSE "none"

\* int(self.conf.get("core", "repositoryformatversion")) and the version check:
\* the exception raised, "none" when the version is 0
VersionOf(v) ==
    IF ~v.ok THEN "ValueError"
    ELSE IF v.val # 0 THEN "UnsupportedFormatVersion"
    ELSE "none"

VersionCheck(conf) ==
    IF "core" \notin DOMAIN conf THEN "NoSectionError"
    ELSE IF "repositoryformatversion" \notin DOMAIN conf["core"] THEN "NoOptionError"
    ELSE VersionOf(PyInt(conf["core"]["repositoryformatversion"]))

RepoRaise(e) == [exc |-> e, repo |-> NoRepo]

\* GitRepository.__init__, from "if not force:" on, e being what the version
\* check raises
RepoVersioned(path, force, conf, e) ==
    IF ~force /\ e # "none" THEN RepoRaise(e)
    ELSE [exc |-> "none", repo |-> RepoAt(path, conf)]

\* GitRepository.__init__, from "if cf and os.path.exists(cf):" on, cf being
\* what repo_file returned
RepoConfigured(f, path, force, cf) ==
    IF cf.exc # "none" THEN RepoRaise(cf.exc)
    ELSE IF ~cf.isNone /\ Exists(f, cf.path)
         THEN RepoVersioned(path, force, ConfRead(f, cf.path), VersionCheck(ConfRead(f, cf.path)))
    ELSE IF ~force THEN RepoRaise("MissingConfig")
    ELSE RepoVersioned(path, force, EmptyConf, "none")

GitRepositoryInit(f, path, force) ==
    IF ~(force \/ IsDir(f, Append(path, GitDirName))) THEN RepoRaise("NotARepository")
    ELSE RepoConfigured(f, path, force,
                        RepoFile(f, RepoAt(path, EmptyConf), <<"config">>, FALSE))

----------------------------------------------------------------------------
(* repo_create. *)

CreateRaise(e, f) == [exc |-> e, fs |-> f, repo |-> NoRepo]

\* "Making sure path either doesn't exist or is an empty dir", and the
\* creation of the work tree when it does not exist
CreateGuard(f, r) ==
    IF Exists(f, r.worktree)
    THEN IF ~IsDir(f, r.worktree) THEN Raise("NotADirectory", f)
         ELSE IF ~Exists(f, r.gitdir)
              THEN IF ListDirExc(f, r.gitdir) # "none" THEN Raise(ListDirExc(f, r.gitdir), f)
                   ELSE IF Entries(f, r.gitdir) # {} THEN Raise("NotEmpty", f)
                   ELSE Ok(f)
              ELSE Ok(f)
    ELSE MakeDirs(f, r.worktree)

\* the directories and files of a new metadata directory, in creation order
CreateDirs == << <<"branches">>, <<"objects">>, <<"refs", "tags">>, <<"refs", "heads">> >>

CreateFiles ==
    << [name |-> <<"description">>,
        data |-> TextFile("Unnamed repository, edit this file 'description' to name the repository.\n")],
       [name |-> <<"HEAD">>, data |-> TextFile("ref: refs/heads/master\n")],
       [name |-> <<"config">>, data |-> ConfFile(RepoDefaultConfig)] >>

\* assert repo_dir(repo, ..., mkdir=True), for each directory in turn; d is
\* what repo_dir returned for the directory before rest
RECURSIVE CreateLayoutDirs(_, _, _)
DirsAfter(d, r, rest) ==
    IF d.exc # "none" THEN Raise(d.exc, d.fs)
    ELSE IF d.isNone THEN Raise("AssertionError", d.fs)
    ELSE CreateLayoutDirs(d.fs, r, rest)

CreateLayoutDirs(f, r, dirs) ==
    IF Len(dirs) = 0 THEN Ok(f)
    ELSE DirsAfter(RepoDir(f, r, Head(dirs), TRUE), r, Tail(dirs))

\* with open(repo_file(repo, name), "w") as f: f.write(...), for each file in
\* turn; w is what writing the file before rest did, p what repo_file returned
RECURSIVE CreateLayoutFiles(_, _, _)
FilesAfter(w, r, rest) ==
    IF w.exc # "none" THEN w ELSE CreateLayoutFiles(w.fs, r, rest)

FileAt(f, p, r, files) ==
    IF p.exc # "none" THEN Raise(p.exc, f)
    ELSE IF p.isNone THEN Raise("TypeError", f)
    ELSE FilesAfter(WriteFile(f, p.path, Head(files).data), r, Tail(files))

CreateLayoutFiles(f, r, files) ==
    IF Len(files) = 0 THEN Ok(f)
    ELSE FileAt(f, RepoFile(f, r, Head(files).name, FALSE), r, files)

\* repo_create after each of its parts: the files, the directories, the
\* guard, the construction of the repository object
CreateWritten(files, r) ==
    IF files.exc # "none" THEN CreateRaise(files.exc, files.fs)
    ELSE [exc |-> "none", fs |-> files.fs, repo |-> r]

CreateLaidOut(dirs, r) ==
    IF dirs.exc # "none" THEN CreateRaise(dirs.exc, dirs.fs)
    ELSE CreateWritten(CreateLayoutFiles(dirs.fs, r, CreateFiles), r)

CreateGuarded(guard, r) ==
    IF guard.exc # "none" THEN CreateRaise(guard.exc, guard.fs)
    ELSE CreateLaidOut(CreateLayoutDirs(guard.fs, r, CreateDirs), r)

CreateWith(f, g) ==
    IF g.exc # "none" THEN CreateRaise(g.exc, f)
    ELSE CreateGuarded(CreateGuard(f, g.repo), g.repo)

RepoCreate(f, path) == CreateWith(f, GitRepositoryInit(f, path, TRUE))

----------------------------------------------------------------------------
(* The object model: GitObject and GitBlob. *)

NoAttrs == [a \in {} |-> <<>>]
NoObject == [fmt |-> <<>>, attrs |-> NoAttrs]

\* GitBlob.deserialize(data): self.blobdata = data
Deserialize(obj, data) == [obj EXCEPT !.attrs = [blobdata |-> data]]

\* GitObject.init(): "Do nothing"
ObjectInit(obj) == obj

\* GitObject.__init__(data) of the variant whose type tag is fmt; given is
\* data != None
GitObjectNew(fmt, given, data) ==
    IF given THEN Deserialize([fmt |-> fmt, attrs |-> NoAttrs], data)
    ELSE ObjectInit([fmt |-> fmt, attrs |-> NoAttrs])

\* GitBlob.serialize(): return self.blobdata
Serialize(obj) ==
    IF "blobdata" \in DOMAIN obj.attrs
    THEN [exc |-> "none", data |-> obj.attrs.blobdata]
    ELSE [exc |-> "AttributeError", data |-> <<>>]

----------------------------------------------------------------------------
(* The object store: object_write and object_read. *)

\* an encoding that leaves the type tag out
FrameUntagged(fmt, data) == DecStr(Len(data)) \o <<NUL>> \o data

\* obj.fmt + b' ' + str(len(data)).encode() + b'\x00' + data
Frame(fmt, data) == fmt \o <<SP>> \o DecStr(Len(data)) \o <<NUL>> \o data

\* the bytes payloads are made of: NUL and "a"
PayloadBytes == {NUL, 97}

Payloads == UNION {[1..n -> PayloadBytes] : n \in 0..MaxPayloadLen}

\* the type tags (obj.fmt) of the objects handed to object_write: GitBlob's,
\* and that of a variant with another tag whose serialize() also returns the
\* bytes it was constructed from
WriteTags == {B_blob, B_tree}

\* hashlib.sha1(result).hexdigest(); the digests of the encodings the model
\* writes are computed once and looked up
Sha1Table == [m \in {Frame(t, p) : t \in WriteTags, p \in Payloads} |-> Sha1Hex(m)]
Digest(result) ==
    IF result \in DOMAIN Sha1Table THEN Sha1Table[result] ELSE Sha1Hex(result)

\* a path that keeps the first two digits in the file name too
ObjectPathWhole(sha) == <<"objects", SubSeq(sha, 1, 2), sha>>

\* sha[0:2] and sha[2:] below the objects directory
ObjectPath(sha) == <<"objects", SubSeq(sha, 1, 2), SubSeq(sha, 3, Len(sha))>>

WriteRaise(e, f) == [exc |-> e, fs |-> f, sha |-> ""]

\* object_write without "if not os.path.exists(path):"
StoreAtAlways(p, result) ==
    IF p.exc # "none" THEN Raise(p.exc, p.fs)
    ELSE IF p.isNone THEN Raise("TypeError", p.fs)
    ELSE WriteFile(p.fs, p.path, ZlibCompress(result))

\* "if not os.path.exists(path):" and the write, p being what repo_file returned
StoreAt(p, result) ==
    IF p.exc # "none" THEN Raise(p.exc, p.fs)
    ELSE IF p.isNone THEN Raise("TypeError", p.fs)
    ELSE IF ~Exists(p.fs, p.path) THEN WriteFile(p.fs, p.path, ZlibCompress(result))
    ELSE Ok(p.fs)

\* the part of object_write under "if repo:"
StoreObject(f, r, sha, result) ==
    StoreAt(RepoFile(f, r, ObjectPath(sha), TRUE), result)

\* "return sha", st being what storing did
WriteReturn(st, sha) ==
    IF st.exc # "none" THEN WriteRaise(st.exc, st.fs)
    ELSE [exc |-> "none", fs |-> st.fs, sha |-> sha]

\* object_write without "if repo:"
WriteHashedStored(f, r, sha, result) ==
    WriteReturn(StoreObject(f, r, sha, result), sha)

\* object_write from "if repo:" on
WriteHashed(f, r, sha, result) ==
    WriteReturn(IF r.isNone THEN Ok(f) ELSE StoreObject(f, r, sha, result), sha)

\* object_write from "Compute hash" on
WriteFramed(f, r, result) == WriteHashed(f, r, Digest(result), result)

\* object_write from "add header" on, ser being what obj.serialize() did
WriteSerialized(f, obj, r, ser) ==
    IF ser.exc # "none" THEN WriteRaise(ser.exc, f)
    ELSE WriteFramed(f, r, Frame(obj.fmt, ser.data))

ObjectWrite(f, obj, r) == WriteSerialized(f, obj, r, Serialize(obj))

ReadRaise(e) == [exc |-> e, isNone |-> TRUE, obj |-> NoObject]
ReadNone == [exc |-> "none", isNone |-> TRUE, obj |-> NoObject]

\* "case _:": fmt.decode("ascii") is evaluated for the message of the
\* exception and raises on a byte above 127
UnknownType(fmt) ==
    IF \E i \in 1..Len(fmt) : fmt[i] > 127 THEN ReadRaise("UnicodeDecodeError")
    ELSE ReadRaise("UnknownObjectType")

\* a dispatch that hands the constructor the bytes from the NUL on
DispatchFromNul(raw, fmt, y) ==
    IF fmt \in {B_commit, B_tree, B_tag} THEN ReadRaise("NameError")
    ELSE IF fmt = B_blob
         THEN [exc |-> "none", isNone |-> FALSE,
               obj |-> GitObjectNew(B_blob, TRUE, Slice(raw, y, Len(raw)))]
    ELSE UnknownType(fmt)

\* "Pick constructor" and "Call constructor and return object", fmt being
\* raw[0:x] and y the position of the NUL; the classes GitCommit, GitTree and
\* GitTag are not defined anywhere in the program
Dispatch(raw, fmt, y) ==
    IF fmt \in {B_commit, B_tree, B_tag} THEN ReadRaise("NameError")
    ELSE IF fmt = B_blob
         THEN [exc |-> "none", isNone |-> FALSE,
               obj |-> GitObjectNew(B_blob, TRUE, Slice(raw, y + 1, Len(raw)))]
    ELSE UnknownType(fmt)

\* object_read with the length compared after the type tag is looked up
SizeCheckedLate(raw, x, y, size) ==
    IF ~size.ok THEN ReadRaise("ValueError")
    ELSE IF Slice(raw, 0, x) \notin {B_commit, B_tree, B_tag, B_blob}
         THEN ReadRaise("UnknownObjectType")
    ELSE IF size.val # Len(raw) - y - 1 THEN ReadRaise("MalformedObject")
    ELSE Dispatch(raw, Slice(raw, 0, x), y)

\* "if size != len(raw)-y-1", size being int(...) of the text
SizeChecked(raw, x, y, size) ==
    IF ~size.ok THEN ReadRaise("ValueError")
    ELSE IF size.val # Len(raw) - y - 1 THEN ReadRaise("MalformedObject")
    ELSE Dispatch(raw, Slice(raw, 0, x), y)

\* int(raw[x:y].decode("ascii")), text being raw[x:y]
SizeDecoded(raw, x, y, text) ==
    IF \E i \in 1..Len(text) : text[i] > 127 THEN ReadRaise("UnicodeDecodeError")
    ELSE SizeChecked(raw, x, y, PyInt(text))

\* x = raw.find(b' '), y = raw.find(b'\x00', x)
HeaderAt(raw, x, y) == SizeDecoded(raw, x, y, Slice(raw, x, y))
HeaderFrom(raw, x) == HeaderAt(raw, x, Find(raw, NUL, x))

\* the body of "with open(path, 'rb') as f:" on the decompressed bytes
Decode(raw) == HeaderFrom(raw, Find(raw, SP, 0))

\* object_read from "if not os.path.isfile(path):" on, p being what repo_file
\* returned
ReadAt(f, p) ==
    IF p.exc # "none" THEN ReadRaise(p.exc)
    ELSE IF p.isNone THEN ReadRaise("TypeError")
    ELSE IF ~IsFile(f, p.path) THEN ReadNone
    ELSE IF ~IsZlib(f[p.path].data) THEN ReadRaise("zlib.error")
    ELSE Decode(ZlibDecompress(f[p.path].data))

ObjectRead(f, r, sha) == ReadAt(f, RepoFile(f, r, ObjectPath(sha), FALSE))

----------------------------------------------------------------------------
(* The inputs the calls are made with. *)

\* the objects handed to object_write: one per tag and payload, and GitBlob()
Objects ==
    {GitObjectNew(t, TRUE, p) : t \in WriteTags, p \in Payloads}
        \cup {GitObjectNew(B_blob, FALSE, <<>>)}

ObjectIds == {Sha1Table[m] : m \in DOMAIN Sha1Table}

\* an identifier of the same fan-out directory as sha that names no object
Sibling(sha) ==
    SubSeq(sha, 1, Len(sha) - 1) \o (IF SubSeq(sha, Len(sha), Len(sha)) = "0" THEN "1" ELSE "0")

\* the identifiers object_read is called with
ReadIds == ObjectIds \cup {Sibling(s) : s \in ObjectIds}

\* the paths create, open and find are called with
Worktrees == {<<"demo">>, <<"demo", "sub">>}

----------------------------------------------------------------------------
(* The record of the last call. *)

RetBase ==
    [op |-> "none", path |-> <<>>, force |-> FALSE, obj |-> NoObject, hasRepo |-> FALSE,
     id |-> "", exc |-> "none", isNone |-> FALSE, sha |-> "", robj |-> NoObject,
     rrepo |-> NoRepo, required |-> FALSE, at |-> <<>>, pc |-> "returned"]

Idle == [pc |-> "idle", obj |-> NoObject, sha |-> "", exc |-> "none"]
Procs == {1, 2}

----------------------------------------------------------------------------
(* The calls. *)

\* repo_create(p)
Create(p) ==
    \E o \in {RepoCreate(fs, p)} :
        /\ fs' = o.fs
        /\ repo' = IF o.exc = "none" THEN o.repo ELSE repo
        /\ ret' = [RetBase EXCEPT !.op = "create", !.path = p, !.exc = o.exc,
                                  !.rrepo = o.repo]
        /\ UNCHANGED procs

\* GitRepository(p, force)
Open(p, force) ==
    \E o \in {GitRepositoryInit(fs, p, force)} :
        /\ repo' = IF o.exc = "none" THEN o.repo ELSE repo
        /\ ret' = [RetBase EXCEPT !.op = "open", !.path = p, !.force = force,
                                  !.exc = o.exc, !.rrepo = o.repo]
        /\ UNCHANGED <<fs, procs>>

\* the object files of the store of repository r
StoredFiles(f, r) ==
    {q \in DOMAIN f : Len(q) = Len(r.gitdir) + 3
                        /\ SubSeq(q, 1, Len(r.gitdir) + 1) = Append(r.gitdir, "objects")
                        /\ f[q].kind = "file"}

\* object_write(obj, repo) when useRepo, object_write(obj) otherwise; calls
\* that would leave more than most object files are left out
WriteWithin(obj, useRepo, most) ==
    \E o \in {ObjectWrite(fs, obj, IF useRepo THEN repo ELSE NoRepo)} :
        /\ useRepo => ~repo.isNone
        /\ Cardinality(StoredFiles(o.fs, repo)) <= most
        /\ fs' = o.fs
        /\ ret' = [RetBase EXCEPT !.op = "write", !.obj = obj, !.hasRepo = useRepo,
                                  !.exc = o.exc, !.sha = o.sha]
        /\ UNCHANGED <<repo, procs>>

Write(obj, useRepo) == WriteWithin(obj, useRepo, MaxStored)

\* object_read(repo, sha)
Read(sha) ==
    \E o \in {ObjectRead(fs, repo, sha)} :
        /\ ~repo.isNone
        /\ ret' = [RetBase EXCEPT !.op = "read", !.id = sha, !.hasRepo = TRUE,
                                  !.exc = o.exc, !.isNone = o.isNone, !.robj = o.obj]
        /\ UNCHANGED <<fs, repo, procs>>

----------------------------------------------------------------------------
(* Two object_write(obj, repo) calls running at once on one store, each
   filesystem call a step of its own. *)

\* the payloads of the blobs the two callers write: the empty blob and
\* b"aa\n" share the fan-out directory e6, b"a" lies in 2e
RacePayloads == {<<>>, <<97>>, <<97, 97, 10>>}
RaceObjects == {GitObjectNew(B_blob, TRUE, d) : d \in RacePayloads}
RaceTable == [m \in {Frame(B_blob, d) : d \in RacePayloads} |-> Sha1Hex(m)]

\* the locals of call p: result, the fan-out directory and the object path
ResultOf(p) == Frame(procs[p].obj.fmt, Serialize(procs[p].obj).data)
FanOutOf(p) == RepoPath(repo, Parent(ObjectPath(procs[p].sha)))
PathOf(p) == RepoPath(repo, ObjectPath(procs[p].sha))

At(p, pc) == procs' = [procs EXCEPT ![p].pc = pc]
Failed(p, e) == procs' = [procs EXCEPT ![p].pc = "failed", ![p].exc = e]

\* object_write up to the call of repo_file: serialize, add header, hash
Begin(p, obj) ==
    /\ procs[p].pc = "idle"
    /\ procs' = [procs EXCEPT ![p] = [pc |-> "exists", obj |-> obj,
                                       sha |-> RaceTable[Frame(obj.fmt, Serialize(obj).data)],
                                       exc |-> "none"]]
    /\ UNCHANGED <<fs, repo, ret>>

\* repo_dir: "if os.path.exists(path):" and the isdir test under it
DirExists(p) ==
    /\ procs[p].pc = "exists"
    /\ IF ~Exists(fs, FanOutOf(p)) THEN At(p, "makedirs")
       ELSE IF IsDir(fs, FanOutOf(p)) THEN At(p, "fileexists")
       ELSE Failed(p, "NotADirectory")
    /\ UNCHANGED <<fs, repo, ret>>

\* repo_dir: "os.makedirs(path)"
MakeDirsCall(p) ==
    /\ procs[p].pc = "makedirs"
    /\ \E m \in {MakeDirs(fs, FanOutOf(p))} :
          /\ fs' = m.fs
          /\ IF m.exc = "none" THEN At(p, "fileexists") ELSE Failed(p, m.exc)
    /\ UNCHANGED <<repo, ret>>

\* object_write: "if not os.path.exists(path):"
FileExists(p) ==
    /\ procs[p].pc = "fileexists"
    /\ IF Exists(fs, PathOf(p)) THEN At(p, "done") ELSE At(p, "open")
    /\ UNCHANGED <<fs, repo, ret>>

\* object_write: "with open(path, 'wb') as f:"
OpenWb(p) ==
    /\ procs[p].pc = "open"
    /\ \E o \in {OpenTrunc(fs, PathOf(p), EmptyBytes)} :
          /\ fs' = o.fs
          /\ IF o.exc = "none" THEN At(p, "write") ELSE Failed(p, o.exc)
    /\ UNCHANGED <<repo, ret>>

\* object_write: "f.write(zlib.compress(result))" and the end of the with block
WriteClose(p) ==
    /\ procs[p].pc = "write"
    /\ fs' = Put(fs, PathOf(p), FileNode(ZlibCompress(ResultOf(p))))
    /\ At(p, "done")
    /\ UNCHANGED <<repo, ret>>

\* "return sha", or the exception reaching the caller, who may call again
Return(p) ==
    /\ procs[p].pc \in {"done", "failed"}
    /\ procs' = [procs EXCEPT ![p] = Idle]
    /\ UNCHANGED <<fs, repo, ret>>

----------------------------------------------------------------------------
(* repo_find, each level of its recursion a step of its own. *)

\* os.path.realpath(p) of an absolute path without symbolic links: "." is
\* dropped, ".." drops the component before it and is dropped at the root
RECURSIVE RealPathFrom(_, _)
RealPathFrom(done, rest) ==
    IF Len(rest) = 0 THEN done
    ELSE IF Head(rest) = "." THEN RealPathFrom(done, Tail(rest))
    ELSE IF Head(rest) = ".."
         THEN RealPathFrom(IF Len(done) = 0 THEN done ELSE Parent(done), Tail(rest))
    ELSE RealPathFrom(Append(done, Head(rest)), Tail(rest))

RealPath(p) == RealPathFrom(<<>>, p)

\* a test that takes a regular file named .git for a metadata directory
HasGitEntry(f, path) == Exists(f, Append(path, GitDirName))

\* os.path.isdir(os.path.join(path, ".git"))
HasGitDir(f, path) == IsDir(f, Append(path, GitDirName))

\* parent = os.path.realpath(os.path.join(path, ".."))
FindParent(path) == RealPath(Append(path, ".."))

\* the paths repo_find is called with
FindStarts ==
    {<<"demo">>, <<"demo", "sub">>, <<"demo", "sub", "deep">>,
     <<"demo", ".", "sub", "..">>, <<"other", "place">>}

\* repo_find(p, required): path = os.path.realpath(path)
FindBegin(p, required) ==
    /\ ret.pc # "walk"
    /\ ret' = [RetBase EXCEPT !.op = "find", !.path = p, !.required = required,
                              !.at = RealPath(p), !.pc = "walk"]
    /\ UNCHANGED <<fs, repo, procs>>

\* "return GitRepository(path)", o being what the constructor did
FindFound(o) ==
    /\ ret' = [ret EXCEPT !.pc = "returned", !.exc = o.exc, !.rrepo = o.repo]
    /\ repo' = IF o.exc = "none" THEN o.repo ELSE repo

\* "if parent == path:": raise "No Git directory" or return None
FindAtRoot ==
    /\ ret' = [ret EXCEPT !.pc = "returned",
                          !.exc = IF ret.required THEN "NoRepository" ELSE "none",
                          !.isNone = ~ret.required]
    /\ repo' = repo

\* one level of repo_find, from the isdir test to the recursive call
FindLook ==
    /\ ret.op = "find" /\ ret.pc = "walk"
    /\ IF HasGitDir(fs, ret.at) THEN FindFound(GitRepositoryInit(fs, ret.at, FALSE))
       ELSE IF FindParent(ret.at) = ret.at THEN FindAtRoot
       ELSE ret' = [ret EXCEPT !.at = FindParent(ret.at)] /\ repo' = repo
    /\ UNCHANGED <<fs, procs>>

----------------------------------------------------------------------------
(* The states the calls start from. *)

RootFS == (<<>> :> DirNode)
Demo == <<"demo">>

Fresh == RepoCreate(RootFS, Demo)
FreshFS == Fresh.fs
FreshRepo == Fresh.repo

\* the configurations a pre-existing config file holds
ConfigVariants ==
    {[core |-> [repositoryformatversion |-> DecStr(v), filemode |-> B_false, bare |-> B_false]] :
        v \in 0..MaxVersion}
        \cup {EmptyConf}

\* what the locator may find at demo: nothing, a regular file, a directory
\* that is empty, holds a file, holds .git as a file or as a directory with
\* or without a configuration file, and a complete repository
LocatorFS ==
    LET dir == Put(RootFS, Demo, DirNode)
        git == Put(dir, <<"demo", ".git">>, DirNode)
    IN  {RootFS, Put(RootFS, Demo, FileNode(TextFile("notes\n"))), dir,
         Put(dir, <<"demo", "README">>, FileNode(TextFile("notes\n"))),
         Put(dir, <<"demo", ".git">>, FileNode(TextFile("gitdir: elsewhere\n"))),
         git}
        \cup {Put(git, <<"demo", ".git", "config">>, FileNode(ConfFile(c))) : c \in ConfigVariants}
        \cup {Put(FreshFS, <<"demo", ".git", "config">>, FileNode(ConfFile(c))) : c \in ConfigVariants}

NoCall ==
    /\ ret = RetBase
    /\ procs = [p \in Procs |-> Idle]

InitLocator ==
    /\ fs \in LocatorFS
    /\ repo = NoRepo
    /\ NoCall

\* the identifier of the empty blob, and the decompressed bytes a damaged
\* file of that name may hold
EmptyBlobId == Digest(Frame(B_blob, <<>>))
DamagedTags == {B_blob, B_blub, B_ble, B_commit}
DamagedPayloads == {<<>>, <<97>>, <<NUL, 97>>}
DamagedRaws ==
    {t \o <<SP>> \o DecStr(n) \o <<NUL>> \o p :
        t \in DamagedTags, n \in 0..MaxDeclared, p \in DamagedPayloads}

\* a created repository in which the file named as the empty blob holds
\* other bytes
DamagedFS ==
    {Put(Put(FreshFS, FreshRepo.gitdir \o SubSeq(ObjectPath(EmptyBlobId), 1, 2), DirNode),
         FreshRepo.gitdir \o ObjectPath(EmptyBlobId), FileNode(ZlibCompress(raw))) :
        raw \in DamagedRaws}

\* a repository just created, GitRepository(demo, True) where nothing exists
\* yet, or a created repository with a damaged object file
InitStore ==
    /\ \/ fs = FreshFS /\ repo = FreshRepo
       \/ fs = RootFS /\ repo = RepoAt(Demo, EmptyConf)
       \/ fs \in DamagedFS /\ repo = FreshRepo
    /\ NoCall

\* a repository just created
InitFresh ==
    /\ fs = FreshFS
    /\ repo = FreshRepo
    /\ NoCall

\* a repository just created, no object_write under way
InitRace ==
    /\ fs = FreshFS
    /\ repo = FreshRepo
    /\ NoCall

\* what repo_find may meet: the filesystems of the locator, and a repository
\* at demo with a repository at demo/sub whose configuration file is as
\* created, holds another configuration, or is missing
NestedFS == RepoCreate(FreshFS, <<"demo", "sub">>).fs
FindFS ==
    LocatorFS
        \cup {Put(NestedFS, <<"demo", "sub", ".git", "config">>, FileNode(ConfFile(c))) :
                c \in ConfigVariants}
        \cup {Put(Put(FreshFS, <<"demo", "sub">>, DirNode), <<"demo", "sub", ".git">>, DirNode)}

InitFind ==
    /\ fs \in FindFS
    /\ repo = NoRepo
    /\ NoCall

----------------------------------------------------------------------------
(* The specifications. *)

NextLocator ==
    \/ \E p \in Worktrees : Create(p)
    \/ \E p \in Worktrees, force \in BOOLEAN : Open(p, force)

NextStore ==
    \/ \E obj \in Objects, useRepo \in BOOLEAN : Write(obj, useRepo)
    \/ \E sha \in ReadIds : Read(sha)
    \/ ~repo.isNone /\ Create(repo.worktree)

NextRace ==
    \E p \in Procs :
        \/ \E obj \in RaceObjects : Begin(p, obj)
        \/ DirExists(p)
        \/ MakeDirsCall(p)
        \/ FileExists(p)
        \/ OpenWb(p)
        \/ WriteClose(p)
        \/ Return(p)

SpecLocator == InitLocator /\ [][NextLocator]_vars
SpecStore == InitStore /\ [][NextStore]_vars
NextFind ==
    \/ \E p \in FindStarts, required \in BOOLEAN : FindBegin(p, required)
    \/ FindLook

\* sequential create, write and read on a repository that starts out empty
NextFresh ==
    \/ \E obj \in Objects, useRepo \in BOOLEAN : WriteWithin(obj, useRepo, MaxFreshStored)
    \/ \E sha \in ReadIds : Read(sha)
    \/ Create(repo.worktree)

SpecRace == InitRace /\ [][NextRace]_vars
SpecFresh == InitFresh /\ [][NextFresh]_vars
\* a call of repo_find that is under way goes on
SpecFind == InitFind /\ [][NextFind]_vars /\ WF_vars(FindLook)

----------------------------------------------------------------------------
(* The claims about the object store, checked under SpecStore. *)

\* the path of the object file named sha in the store of the repository
StoredAt(sha) == repo.gitdir \o ObjectPath(sha)

\* the bytes object_write stores for obj
Encoded(obj) == ZlibCompress(Frame(obj.fmt, obj.attrs.blobdata))

\* C1: no object_write changes an object file that already exists, and an
\* object_write into the repository of an object with the type tag and payload
\* of the object written just before returns the same identifier and leaves
\* the filesystem as it is, with one file at the derived path.
C1_WriteOnce ==
    [][ret'.op = "write" =>
         /\ \A q \in StoredFiles(fs, repo) : q \in DOMAIN fs' /\ fs'[q] = fs[q]
         /\ (ret.op = "write" /\ ret.hasRepo /\ ret.exc = "none"
                /\ ret'.hasRepo /\ ret'.obj = ret.obj)
              => /\ ret'.exc = "none"
                 /\ ret'.sha = ret.sha
                 /\ fs' = fs
                 /\ IsFile(fs', StoredAt(ret.sha))]_vars

\* an object_write has returned the identifier of a file that holds other
\* bytes than the object's encoding: the file was there and was left alone
C1_Witness ==
    /\ ret.op = "write" /\ ret.hasRepo /\ ret.exc = "none"
    /\ IsFile(fs, StoredAt(ret.sha))
    /\ fs[StoredAt(ret.sha)].data # Encoded(ret.obj)

\* C2: object_read returns None, and raises nothing, whenever no file exists
\* at the path derived from the identifier, the fan-out directory missing
\* included.
C2_ReadMissing ==
    (ret.op = "read" /\ ~IsFile(fs, StoredAt(ret.id)))
        => (ret.exc = "none" /\ ret.isNone)

\* the tags, declared lengths and payloads of the object files of the store
CheckTags == WriteTags \cup DamagedTags
CheckSizes == 0..MaxDeclared \cup 0..MaxPayloadLen
CheckPayloads == Payloads \cup DamagedPayloads

\* C6: the object file object_read decoded holds a tag, a space, a declared
\* length, a NUL and a payload, and the call raised MalformedObject exactly
\* when the declared length is not the length of the payload, whatever the
\* tag, recognised or not.
C6_LengthCheck ==
    (ret.op = "read" /\ IsFile(fs, StoredAt(ret.id)))
        => \E t \in CheckTags, n \in CheckSizes, p \in CheckPayloads :
              /\ fs[StoredAt(ret.id)].data
                    = ZlibCompress(t \o <<SP>> \o DecStr(n) \o <<NUL>> \o p)
              /\ (ret.exc = "MalformedObject") <=> (n # Len(p))

\* object_read raised MalformedObject on a file whose tag names no object type
C6_Witness ==
    /\ ret.op = "read" /\ ret.exc = "MalformedObject"
    /\ IsFile(fs, StoredAt(ret.id))
    /\ \E n \in CheckSizes, p \in CheckPayloads :
          /\ n # Len(p)
          /\ fs[StoredAt(ret.id)].data
                = ZlibCompress(B_blub \o <<SP>> \o DecStr(n) \o <<NUL>> \o p)

\* C7: object_write without a repository leaves the whole filesystem as it
\* is, for every object and every state of the store, and returns a 40-digit
\* identifier for every object that carries a payload.
C7_HashOnly ==
    [][(ret'.op = "write" /\ ~ret'.hasRepo)
         => /\ fs' = fs
            /\ "blobdata" \in DOMAIN ret'.obj.attrs
                 => (ret'.exc = "none" /\ Len(ret'.sha) = 40)]_vars

\* hashing the 0-byte blob returned its identifier and no file of that name
\* is in the store
C7_Witness ==
    /\ ret.op = "write" /\ ~ret.hasRepo /\ ret.exc = "none"
    /\ ret.obj = GitObjectNew(B_blob, TRUE, <<>>)
    /\ ret.sha = "e69de29bb2d1d6434b8b29ae775ad8c2e48c5391"
    /\ ~Exists(fs, StoredAt(ret.sha))

\* C8: two object_write calls in a row return the same identifier exactly
\* when their objects have the same type tag and the same payload, with or
\* without a repository and whatever the store holds.
C8_ContentAddressed ==
    [][(ret.op = "write" /\ ret.exc = "none" /\ ret'.op = "write" /\ ret'.exc = "none")
         => ((ret'.obj.fmt = ret.obj.fmt
                /\ ret'.obj.attrs.blobdata = ret.obj.attrs.blobdata)
              <=> ret'.sha = ret.sha)]_vars

\* object_write without a repository returned the identifier under which the
\* store already holds the object
C8_Witness ==
    /\ ret.op = "write" /\ ~ret.hasRepo /\ ret.exc = "none"
    /\ IsFile(fs, StoredAt(ret.sha))
    /\ fs[StoredAt(ret.sha)].data = Encoded(ret.obj)

\* C9: serialize() of GitBlob() returns the empty byte sequence, and
\* object_write of it succeeds and returns the identifier of the empty blob.
C9_DefaultBlob ==
    (ret.op = "write" /\ ret.obj = GitObjectNew(B_blob, FALSE, <<>>))
        => /\ Serialize(ret.obj) = [exc |-> "none", data |-> <<>>]
           /\ ret.exc = "none"
           /\ ret.sha = EmptyBlobId

----------------------------------------------------------------------------
(* The claims about the locator, checked under SpecLocator. *)

GitDirOf(p) == Append(p, GitDirName)
ConfigOf(p) == Append(GitDirOf(p), "config")

\* the configuration file of the repository at p stores format version n
StoredVersion(f, p, n) ==
    /\ IsFile(f, ConfigOf(p))
    /\ \E c \in ConfigVariants :
          /\ f[ConfigOf(p)].data = ConfFile(c)
          /\ "core" \in DOMAIN c
          /\ c.core.repositoryformatversion = DecStr(n)

\* p does not exist and nothing on the way to it is a regular file
Creatable(f, p) ==
    /\ ~Exists(f, p)
    /\ \A i \in 0..Len(p) - 1 : Exists(f, SubSeq(p, 1, i)) => IsDir(f, SubSeq(p, 1, i))

\* the layout repo_create leaves in the metadata directory g
Layout(f, g) ==
    /\ \A d \in {<<"branches">>, <<"objects">>, <<"refs", "tags">>, <<"refs", "heads">>} :
          IsDir(f, g \o d)
    /\ \A n \in {"config", "description", "HEAD"} : IsFile(f, Append(g, n))

\* C3: repo_create(path) raises NotEmpty when path is a directory that has
\* entries and no metadata directory, raises NotADirectory when path is not a
\* directory, creates nothing in both cases, and goes on to create the
\* repository when path does not exist or is an empty directory.
C3_CreateGuard ==
    [][ret'.op = "create" =>
         /\ (IsDir(fs, ret'.path) /\ Entries(fs, ret'.path) # {}
                /\ ~Exists(fs, GitDirOf(ret'.path)))
              => (ret'.exc = "NotEmpty" /\ fs' = fs)
         /\ (Exists(fs, ret'.path) /\ ~IsDir(fs, ret'.path))
              => (ret'.exc = "NotADirectory" /\ fs' = fs)
         /\ (Creatable(fs, ret'.path)
                \/ (IsDir(fs, ret'.path) /\ Entries(fs, ret'.path) = {}))
              => ret'.exc = "none"]_vars

\* C4: GitRepository(path) without force raises NotARepository when path
\* holds no metadata directory, else MissingConfig when that directory holds
\* no config, else UnsupportedFormatVersion when the stored version is an
\* integer other than 0, and succeeds exactly when the directory is there, the
\* config is there and the stored version is 0; with force it raises none of
\* the three.
C4_OpenChecks ==
    ret.op = "open" =>
        IF ret.force
        THEN ret.exc \notin {"NotARepository", "MissingConfig", "UnsupportedFormatVersion"}
        ELSE /\ ~IsDir(fs, GitDirOf(ret.path)) => ret.exc = "NotARepository"
             /\ (IsDir(fs, GitDirOf(ret.path)) /\ ~Exists(fs, ConfigOf(ret.path)))
                  => ret.exc = "MissingConfig"
             /\ (IsDir(fs, GitDirOf(ret.path))
                    /\ \E n \in 1..MaxVersion : StoredVersion(fs, ret.path, n))
                  => ret.exc = "UnsupportedFormatVersion"
             /\ ret.exc = "none"
                  <=> (IsDir(fs, GitDirOf(ret.path)) /\ StoredVersion(fs, ret.path, 0))

\* GitRepository(path) has raised UnsupportedFormatVersion on a repository
\* that has its metadata directory and its config
C4_Witness ==
    /\ ret.op = "open" /\ ~ret.force /\ ret.exc = "UnsupportedFormatVersion"
    /\ Layout(fs, GitDirOf(ret.path))

\* C5: repo_create(path) on a path that does not exist succeeds and leaves
\* the directories branches, objects, refs/tags and refs/heads and the files
\* config, description and HEAD in the metadata directory; and
\* GitRepository(path) right after a repo_create(path) that succeeded
\* succeeds with stored format version 0.
C5_CreateThenOpen ==
    [][/\ (ret'.op = "create" /\ Creatable(fs, ret'.path))
            => (ret'.exc = "none" /\ Layout(fs', GitDirOf(ret'.path)))
       /\ (ret.op = "create" /\ ret.exc = "none"
              /\ ret'.op = "open" /\ ret'.path = ret.path /\ ~ret'.force)
            => /\ ret'.exc = "none"
               /\ ret'.rrepo.conf.core.repositoryformatversion = DecStr(0)]_vars

\* GitRepository(demo/sub) has succeeded on the repository repo_create made
\* where nothing existed
C5_Witness ==
    /\ ret.op = "open" /\ ~ret.force /\ ret.exc = "none"
    /\ ret.path = <<"demo", "sub">>
    /\ ret.rrepo.conf.core.repositoryformatversion = DecStr(0)
    /\ Layout(fs, GitDirOf(ret.path))

----------------------------------------------------------------------------
(* The claim about concurrent writers, checked under SpecRace. *)

\* C10: of two object_write calls running at once on one store, for the same
\* object or for objects of one fan-out directory, neither fails, and when
\* both have returned the object file of each holds its complete bytes.
C10_ConcurrentWrites ==
    /\ \A p \in Procs : procs[p].pc # "failed"
    /\ (\A p \in Procs : procs[p].pc = "done")
         => \A p \in Procs :
               /\ IsFile(fs, PathOf(p))
               /\ fs[PathOf(p)].data = ZlibCompress(ResultOf(p))

----------------------------------------------------------------------------
(* The claim about repo_find, checked under SpecFind. *)

\* the directories from the one p denotes up to the root that hold a
\* metadata directory, and the nearest of them
GitHolders(f, p) ==
    {q \in {SubSeq(RealPath(p), 1, i) : i \in 0..Len(RealPath(p))} : IsDir(f, GitDirOf(q))}
Nearest(f, p) ==
    CHOOSE q \in GitHolders(f, p) : \A r \in GitHolders(f, p) : Len(r) <= Len(q)

\* what repo_find returned when no directory up to the root holds a metadata
\* directory: NoRepository when required, None without an exception otherwise
FoundNothing ==
    IF ret.required THEN ret.exc = "NoRepository"
    ELSE ret.exc = "none" /\ ret.isNone

\* C11 as stated: repo_find returns the repository of the nearest directory,
\* from the start path up to the root, that holds a metadata directory, and
\* NoRepository or None when there is none.
C11_FindNearest ==
    (ret.op = "find" /\ ret.pc = "returned")
        => IF GitHolders(fs, ret.path) # {}
           THEN /\ ret.exc = "none" /\ ~ret.isNone
                /\ ret.rrepo.worktree = Nearest(fs, ret.path)
           ELSE FoundNothing

\* C11, amended: every call of repo_find returns and none changes the
\* filesystem; when a directory from the start path up to the root holds a
\* metadata directory, the call does what GitRepository does for the nearest
\* one and looks no further: it returns that repository exactly when its
\* config is there and stores version 0, raises MissingConfig when the config
\* is missing and UnsupportedFormatVersion when another integer is stored;
\* when there is none it raises NoRepository if required and returns None
\* otherwise.
C11_FindNearestOpened ==
    /\ [](ret.op = "find" /\ ret.pc = "returned"
            => IF GitHolders(fs, ret.path) # {}
               THEN /\ ~ret.isNone
                    /\ ret.exc = "none" <=> StoredVersion(fs, Nearest(fs, ret.path), 0)
                    /\ ret.exc = "none" => ret.rrepo.worktree = Nearest(fs, ret.path)
                    /\ ~Exists(fs, ConfigOf(Nearest(fs, ret.path)))
                         => ret.exc = "MissingConfig"
                    /\ (\E n \in 1..MaxVersion : StoredVersion(fs, Nearest(fs, ret.path), n))
                         => ret.exc = "UnsupportedFormatVersion"
               ELSE FoundNothing)
    /\ [][ret'.op = "find" => fs' = fs]_vars
    /\ (ret.pc = "walk") ~> (ret.pc = "returned")

\* repo_find(demo/sub/deep) has returned the repository at demo/sub, demo
\* being a repository too
C11_Witness ==
    /\ ret.op = "find" /\ ret.pc = "returned" /\ ret.exc = "none"
    /\ ret.path = <<"demo", "sub", "deep">>
    /\ ret.rrepo.worktree = <<"demo", "sub">>
    /\ IsDir(fs, GitDirOf(<<"demo">>))

----------------------------------------------------------------------------
(* The claims about reading what the store holds, checked under SpecStore. *)

\* the four type tags of the object format
KnownTags == {B_blob, B_tree, B_commit, B_tag}

\* C12: when the object file object_read decoded holds a tag, a space, the
\* length of the payload, a NUL and the payload, the tag blob gives a GitBlob
\* holding exactly the payload, a tag that is none of blob, tree, commit and
\* tag gives UnknownObjectType, and no such tag gives an object.
C12_TypeDispatch ==
    (ret.op = "read" /\ IsFile(fs, StoredAt(ret.id)))
        => \A t \in CheckTags, p \in CheckPayloads :
              fs[StoredAt(ret.id)].data
                    = ZlibCompress(t \o <<SP>> \o DecStr(Len(p)) \o <<NUL>> \o p)
                => /\ t = B_blob
                        => /\ ret.exc = "none" /\ ~ret.isNone
                           /\ ret.robj = GitObjectNew(B_blob, TRUE, p)
                   /\ t \notin KnownTags
                        => (ret.exc = "UnknownObjectType" /\ ret.robj = NoObject)

----------------------------------------------------------------------------
(* The claims about a store that starts out empty, checked under SpecFresh. *)

\* C13: object_write of a GitBlob constructed from bytes p into the
\* repository succeeds, and object_read of the identifier it returned,
\* called next, returns a GitBlob whose serialize() gives p: not None, not
\* MalformedObject, not UnknownObjectType.
C13_ReadAfterWrite ==
    [][/\ (ret'.op = "write" /\ ret'.hasRepo /\ ret'.obj.fmt = B_blob
              /\ "blobdata" \in DOMAIN ret'.obj.attrs)
            => ret'.exc = "none"
       /\ (ret.op = "write" /\ ret.hasRepo /\ ret.exc = "none" /\ ret.obj.fmt = B_blob
              /\ ret'.op = "read" /\ ret'.id = ret.sha)
            => /\ ret'.exc = "none" /\ ~ret'.isNone
               /\ ret'.robj.fmt = B_blob
               /\ Serialize(ret'.robj) = [exc |-> "none", data |-> ret.obj.attrs.blobdata]]_vars

\* object_read has returned the blob b"a" from a store that holds another
\* object too
C13_Witness ==
    /\ ret.op = "read" /\ ret.exc = "none" /\ ~ret.isNone
    /\ ret.robj = GitObjectNew(B_blob, TRUE, <<97>>)
    /\ Cardinality(StoredFiles(fs, repo)) = 2

\* C14: every object file holds the compression of a tag, a space, the
\* length of the payload, a NUL and the payload, and is named by the SHA-1 of
\* those bytes; and object_read and repo_create on the repository add,
\* remove and change no object file.
C14_StoreIntegrity ==
    /\ [](\A q \in StoredFiles(fs, repo) :
            \E t \in WriteTags, p \in Payloads :
                /\ fs[q].data = ZlibCompress(t \o <<SP>> \o DecStr(Len(p)) \o <<NUL>> \o p)
                /\ \E sha \in ObjectIds :
                      /\ sha = Sha1Table[t \o <<SP>> \o DecStr(Len(p)) \o <<NUL>> \o p]
                      /\ q = repo.gitdir \o <<"objects", SubSeq(sha, 1, 2), SubSeq(sha, 3, 40)>>)
    /\ [][ret'.op \in {"read", "create"}
            => /\ StoredFiles(fs', repo') = StoredFiles(fs, repo)
               /\ \A q \in StoredFiles(fs, repo) : fs'[q] = fs[q]]_vars

\* repo_create has run again on a repository whose store holds two objects
C14_Witness ==
    /\ ret.op = "create" /\ ret.exc = "none"
    /\ Cardinality(StoredFiles(fs, repo)) = 2

====
